---- MODULE Spec2Model ----
(***************************************************************************)
(* Model of the FaceIt expression timeline: the expression list of the     *)
(* scene, the actions 'faceit_shape_action' / 'overwrite_shape_action',    *)
(* the corrective shape-key action, and the operators of                   *)
(* src/animate/animate_operators.py that edit them.                        *)
(*                                                                         *)
(* Representation.                                                         *)
(*  - A name is a sequence of one-character strings, so that the side      *)
(*    detection of the operators (substring / suffix tests) is computed.   *)
(*  - An fcurve is the array of its keyframe points in array order, each   *)
(*    point a record [f |-> frame, v |-> value]; fcurve.update() sorts     *)
(*    the array by frame (stable).  Several points may share a frame.      *)
(*  - An action is a record [exists, fcurves]; fcurves maps the data       *)
(*    paths the action holds to their fcurves.  One array channel stands   *)
(*    for the channels of a data path.                                     *)
(*  - Every operator is a function from the program state (a record S of   *)
(*    all scene data) to the state it leaves, with S.result the value it   *)
(*    returns ('FINISHED', 'CANCELLED') or 'ERROR' for a Python exception. *)
(***************************************************************************)
EXTENDS Integers, Sequences, FiniteSets, TLC

\* ---------------------------------------------------------------- bounds
MaxLen == 3          \* longest expression list explored
MaxOps == 5          \* operator calls per behaviour

\* -------------------------------------------------------- generic helpers
Range(s) == {s[i] : i \in DOMAIN s}

Max(a, b) == IF a >= b THEN a ELSE b

Min(a, b) == IF a <= b THEN a ELSE b

RECURSIVE SeqFlatten(_)
SeqFlatten(ss) == IF ss = <<>> THEN <<>> ELSE Head(ss) \o SeqFlatten(Tail(ss))

\* s without its i-th element (1-based)
RemoveAt(s, i) == SubSeq(s, 1, i - 1) \o SubSeq(s, i + 1, Len(s))

\* ---------------------------------------------------------------- strings
UpperChars == <<"A","B","C","D","E","F","G","H","I","J","K","L","M",
                "N","O","P","Q","R","S","T","U","V","W","X","Y","Z">>

LowerChars == <<"a","b","c","d","e","f","g","h","i","j","k","l","m",
                "n","o","p","q","r","s","t","u","v","w","x","y","z">>

\* str.lower() / str.islower() on one character
LowerChar(c) ==
    IF \E i \in DOMAIN UpperChars : UpperChars[i] = c
    THEN LowerChars[CHOOSE i \in DOMAIN UpperChars : UpperChars[i] = c]
    ELSE c

IsLowerChar(c) == \E i \in DOMAIN LowerChars : LowerChars[i] = c

StrLower(s) == [i \in DOMAIN s |-> LowerChar(s[i])]

\* 'sub in s'
StrContains(s, sub) ==
    \E i \in 0..(Len(s) - Len(sub)) : SubSeq(s, i + 1, i + Len(sub)) = sub

\* s.endswith(suf)
StrEndsWith(s, suf) ==
    /\ Len(s) >= Len(suf)
    /\ SubSeq(s, Len(s) - Len(suf) + 1, Len(s)) = suf

\* first position (0-based) of sub in s; only used when sub is in s
StrFind(s, sub) ==
    CHOOSE i \in 0..(Len(s) - Len(sub)) :
        /\ SubSeq(s, i + 1, i + Len(sub)) = sub
        /\ \A j \in 0..(i - 1) : SubSeq(s, j + 1, j + Len(sub)) # sub

\* s.replace(old, new), every non-overlapping occurrence from the left
RECURSIVE StrReplace(_, _, _)
StrReplace(s, old, new) ==
    IF ~StrContains(s, old) THEN s
    ELSE LET i == StrFind(s, old)
         IN  SubSeq(s, 1, i) \o new
                 \o StrReplace(SubSeq(s, i + Len(old) + 1, Len(s)), old, new)

\* ------------------------------------------------- side of a name (28-82)
sLeft == <<"l","e","f","t">>

sRight == <<"r","i","g","h","t">>

\* a variant that looks for the right side first
get_side_RightFirst(expression_name) ==
    IF \/ StrContains(StrLower(expression_name), sRight)
       \/ StrEndsWith(StrLower(expression_name), <<"_","r">>)
       \/ StrEndsWith(expression_name, <<"R">>)
    THEN "R"
    ELSE IF \/ StrContains(StrLower(expression_name), sLeft)
            \/ StrEndsWith(StrLower(expression_name), <<"_","l">>)
            \/ StrEndsWith(expression_name, <<"L">>)
         THEN "L"
         ELSE "N"

\* lines 28-35
get_side(expression_name) ==
    IF \/ StrContains(StrLower(expression_name), sLeft)
       \/ StrEndsWith(StrLower(expression_name), <<"_","l">>)
       \/ StrEndsWith(expression_name, <<"L">>)
    THEN "L"
    ELSE IF \/ StrContains(StrLower(expression_name), sRight)
            \/ StrEndsWith(StrLower(expression_name), <<"_","r">>)
            \/ StrEndsWith(expression_name, <<"R">>)
         THEN "R"
         ELSE "N"

poll_side_in_expression_name(side, expression_name) ==
    IF side = "L"
    THEN \/ StrContains(StrLower(expression_name), sLeft)
         \/ StrEndsWith(StrLower(expression_name), <<"_","l">>)
         \/ StrEndsWith(expression_name, <<"L">>)
    ELSE IF side = "R"
         THEN \/ StrContains(StrLower(expression_name), sRight)
              \/ StrEndsWith(StrLower(expression_name), <<"_","r">>)
              \/ StrEndsWith(expression_name, <<"R">>)
         ELSE FALSE

ButLast(s) == SubSeq(s, 1, Len(s) - 1)

get_mirror_name(side, n) ==
    IF side = "L" THEN
        IF StrContains(n, <<"L","e","f","t">>)
            THEN StrReplace(n, <<"L","e","f","t">>, <<"R","i","g","h","t">>)
        ELSE IF StrContains(n, sLeft) THEN StrReplace(n, sLeft, sRight)
        ELSE IF StrContains(n, <<"L","E","F","T">>)
            THEN StrReplace(n, <<"L","E","F","T">>, <<"R","I","G","H","T">>)
        ELSE IF StrEndsWith(StrLower(n), <<"_","l">>)
            THEN IF IsLowerChar(n[Len(n)]) THEN ButLast(n) \o <<"r">>
                                           ELSE ButLast(n) \o <<"R">>
        ELSE IF StrEndsWith(n, <<"L">>) THEN ButLast(n) \o <<"R">>
        ELSE <<>>
    ELSE IF side = "R" THEN
        IF StrContains(n, <<"R","i","g","h","t">>)
            THEN StrReplace(n, <<"R","i","g","h","t">>, <<"L","e","f","t">>)
        ELSE IF StrContains(n, sRight) THEN StrReplace(n, sRight, sLeft)
        ELSE IF StrContains(n, <<"R","I","G","H","T">>)
            THEN StrReplace(n, <<"R","I","G","H","T">>, <<"L","E","F","T">>)
        ELSE IF StrEndsWith(StrLower(n), <<"_","r">>)
            THEN IF IsLowerChar(n[Len(n)]) THEN ButLast(n) \o <<"l">>
                                           ELSE ButLast(n) \o <<"L">>
        ELSE IF StrEndsWith(n, <<"R">>) THEN ButLast(n) \o <<"L">>
        ELSE <<>>
    ELSE <<>>


\* ------------------------------------------------------------ vocabulary
SlotLen == 10        \* frames per expression slot

SHAPE == "faceit_shape_action"

OW == "overwrite_shape_action"

NoName == <<>>       \* the empty string ''

\* data paths of the rig's control bones (one channel each):
\*   jaw    pose.bones["jaw_master"].location
\*   lip    pose.bones["lips.L"].location
\*   scale  pose.bones["c"].scale
\*   lock   pose.bones["jaw_master"]["mouth_lock"]
\*   infl   pose.bones["c"].constraints["x"].influence
TransformPaths == {"jaw", "lip", "scale"}

JawMasterPaths == {"jaw", "lock"}

LipPaths == {"lip"}

IsScalePath(dp) == dp = "scale"

IsInfluencePath(dp) == dp = "infl"

IsMouthLockPath(dp) == dp = "lock"

\* rest value of a channel: 1 for scale, 0 otherwise
BaseValue(dp) == IF IsScalePath(dp) THEN 1 ELSE 0

Key(f, v) == [f |-> f, v |-> v]

NoCurves == [dp \in {} |-> <<>>]

NoAction == [exists |-> FALSE, fcurves |-> NoCurves]

NewAction == [exists |-> TRUE, fcurves |-> NoCurves]

\* ------------------------------------------------------- fcurve helpers
\* keyframe points of fc located at frame f, in array order
KeysAt(fc, f) == SelectSeq(fc, LAMBDA k : k.f = f)

FramesOf(fc) == {fc[i].f : i \in DOMAIN fc}

RECURSIVE InsertSorted(_, _)
InsertSorted(sorted, k) ==
    IF sorted = <<>> THEN <<k>>
    ELSE IF sorted[Len(sorted)].f <= k.f THEN Append(sorted, k)
         ELSE Append(InsertSorted(ButLast(sorted), k), sorted[Len(sorted)])

\* fcurve.update(): the points are sorted by frame, equal frames keep order
RECURSIVE fcurve_update(_)
fcurve_update(fc) ==
    IF fc = <<>> THEN <<>>
    ELSE InsertSorted(fcurve_update(ButLast(fc)), fc[Len(fc)])

\* keyframe_points.insert(f, v): the value of a point already at f is
\* replaced, otherwise a point is inserted at its sorted place
kf_insert(fc, f, v) ==
    IF \E i \in DOMAIN fc : fc[i].f = f
    THEN LET i == CHOOSE j \in DOMAIN fc :
                      fc[j].f = f /\ \A h \in 1..(j - 1) : fc[h].f # f
         IN  [fc EXCEPT ![i] = Key(f, v)]
    ELSE InsertSorted(fc, Key(f, v))

RECURSIVE kf_insert_all(_, _, _)
kf_insert_all(fc, frames, v) ==
    IF frames = {} THEN fc
    ELSE LET f == CHOOSE x \in frames : \A y \in frames : x <= y
         IN  kf_insert_all(kf_insert(fc, f, v), frames \ {f}, v)

\* 'for key in curve.keyframe_points: if key.co[0] == frame: remove(key)'
\* the loop walks the array by position while the array shrinks under it,
\* so the point that follows a removed point is not visited
RECURSIVE RemoveLoop(_, _, _)
RemoveLoop(fc, frame, i) ==
    IF i > Len(fc) THEN fc
    ELSE IF fc[i].f = frame THEN RemoveLoop(RemoveAt(fc, i), frame, i + 1)
         ELSE RemoveLoop(fc, frame, i + 1)

\* 'for key in curve.keyframe_points: if key.co[0] > frame: key.co[0] -= 10'
ShiftAfter(fc, frame) ==
    [i \in DOMAIN fc |->
        IF fc[i].f > frame THEN Key(fc[i].f - SlotLen, fc[i].v) ELSE fc[i]]

AllFrames(action) == UNION {FramesOf(action.fcurves[dp]) : dp \in DOMAIN action.fcurves}

SetMax(S) == CHOOSE x \in S : \A y \in S : y <= x

SetMin(S) == CHOOSE x \in S : \A y \in S : x <= y

\* futils.get_action_frame_range: first and last keyed frame of the action
get_action_frame_range(action) ==
    IF AllFrames(action) = {} THEN <<0, 1>>
    ELSE IF SetMin(AllFrames(action)) = SetMax(AllFrames(action))
         THEN <<SetMin(AllFrames(action)), SetMin(AllFrames(action)) + 1>>
         ELSE <<SetMin(AllFrames(action)), SetMax(AllFrames(action))>>

\* fc_dr_utils.get_fcurve_from_bpy_struct: the curve of dp, created if missing
get_fcurve_from_bpy_struct(action, dp) ==
    IF dp \in DOMAIN action.fcurves THEN action
    ELSE [action EXCEPT !.fcurves =
            [x \in DOMAIN action.fcurves \cup {dp} |->
                IF x = dp THEN <<>> ELSE action.fcurves[x]]]

RECURSIVE EnsureCurves(_, _)
EnsureCurves(action, dps) ==
    IF dps = {} THEN action
    ELSE LET dp == CHOOSE x \in dps : TRUE
         IN  EnsureCurves(get_fcurve_from_bpy_struct(action, dp), dps \ {dp})

\* fc_dr_utils.populate_keyframe_points_from_np_array(fc, kf_data, add=True):
\* the points are added to the ones the curve holds, then the curve is updated
populate_keyframe_points_from_np_array(fc, kf_data) == fcurve_update(fc \o kf_data)

\* ------------------------------------------------------- expression list
Item(name, frame, side, mirror_name, procedural) ==
    [name |-> name, frame |-> frame, side |-> side, mirror_name |-> mirror_name,
     procedural |-> procedural, corr_shape_key |-> FALSE]

ListNames(list) == {list[i].name : i \in DOMAIN list}

\* collection.find(name): 0-based position of the first item so named, or -1
ListFind(list, name) ==
    IF \E i \in DOMAIN list : list[i].name = name
    THEN (CHOOSE i \in DOMAIN list :
            list[i].name = name /\ \A j \in 1..(i - 1) : list[j].name # name) - 1
    ELSE -1

\* collection[i] with Python's negative positions; 0 when out of range
PyPos(list, i) ==
    IF i >= 0 /\ i < Len(list) THEN i + 1
    ELSE IF i < 0 /\ -i <= Len(list) THEN Len(list) + i + 1
         ELSE 0

\* collection.move(src, dst), 0-based
ListMove(list, src, dst) ==
    LET item == list[src + 1]
        rest == RemoveAt(list, src + 1)
    IN  SubSeq(rest, 1, dst) \o <<item>> \o SubSeq(rest, dst + 1, Len(rest))

\* core.detection_manager.get_expression_name_double_entries: the name itself
\* when the list has no item so named, otherwise the name with the first free
\* numeric suffix
NameSuffix(i) == <<".", ToString(i)>>

get_expression_name_double_entries(name, list) ==
    IF name \notin ListNames(list) THEN name
    ELSE name \o NameSuffix(
            CHOOSE i \in 1..(Len(list) + 1) :
                /\ (name \o NameSuffix(i)) \notin ListNames(list)
                /\ \A j \in 1..(i - 1) : (name \o NameSuffix(j)) \in ListNames(list))


\* ------------------------------------------------ corrective shape keys
\* no shape key has a source
NoSources == [n \in {} |-> {}]

\* the shape key of expression name is (re)built from the given shape keys
SetSource(sources, name, from) ==
    [n \in DOMAIN sources \cup {name} |-> IF n = name THEN from ELSE sources[n]]

\* lines 1761-1783: the shape key blended into the new shape key of the
\* mirror expression.  When the two are the same shape key it has been
\* removed in line 1768 before it is read: any shape key or none
BlendSource(keys, name, mirror_name) ==
    IF name = mirror_name THEN keys \cup {NoName} ELSE {name}

\* ---------------------------------------------------------------- state
VARIABLES
    faceit_expression_list,        \* scene.faceit_expression_list
    faceit_expression_list_index,  \* scene.faceit_expression_list_index
    actions,                       \* bpy.data.actions: SHAPE and OW
    cc_action,                     \* bpy.data.actions[CORRECTIVE_SK_ACTION_NAME]
    rig_action,                    \* rig.animation_data.action: "None", SHAPE or OW
    shape_keys,                    \* expressions E with a shape key 'faceit_cc_<E>'
    sk_source,                     \* per shape key, the shape keys it may be blended from
    frame_start, frame_end, frame_current,
    exported,                      \* the .face file written by the last export
    exported_list,                 \* the expression list that export was made from
    rig_hidden,                    \* rig.hide_viewport
    shapes_generated,              \* scene.faceit_shapes_generated
    auto_mirror_x,                 \* scene.faceit_use_auto_mirror_x
    use_mirror_x,                  \* rig.pose.use_mirror_x
    blendshapes_target,            \* scene.faceit_mocap_motion_types.blendshapes_target
    mocap_actions,                 \* the other actions of bpy.data.actions, by name
    sk_action,                     \* shape_keys.animation_data.action of the objects
    mocap_action,                  \* scene.faceit_mocap_action
    op,                            \* the operator call just made and its result
    nops                           \* operator calls made

vars == <<faceit_expression_list, faceit_expression_list_index, actions, cc_action,
          rig_action, shape_keys, frame_start, frame_end, frame_current, exported,
          exported_list, rig_hidden, shapes_generated, auto_mirror_x, use_mirror_x,
          blendshapes_target, mocap_actions, sk_action, mocap_action, sk_source, op,
          nops>>

\* the program state as one value
State ==
    [expression_list |-> faceit_expression_list,
     list_index |-> faceit_expression_list_index,
     actions |-> actions, cc_action |-> cc_action, rig_action |-> rig_action,
     shape_keys |-> shape_keys, frame_start |-> frame_start,
     frame_end |-> frame_end, frame_current |-> frame_current,
     rig_hidden |-> rig_hidden, shapes_generated |-> shapes_generated,
     auto_mirror_x |-> auto_mirror_x, use_mirror_x |-> use_mirror_x,
     sk_source |-> sk_source,
     result |-> "FINISHED"]

\* ---------------------------------- properties/animate_scene_properties.py
\* a variant that keeps the mirror option of the rig as it is
update_expression_list_index_NoMirror(S) ==
    IF S.expression_list = <<>> THEN S
    ELSE IF PyPos(S.expression_list, S.list_index) = 0 THEN S
    ELSE IF S.rig_hidden \/ S.shapes_generated THEN S
    ELSE [S EXCEPT !.frame_current =
             S.expression_list[PyPos(S.expression_list, S.list_index)].frame]

\* update callback of faceit_expression_list_index: unless the rig is hidden
\* or the expression shapes are generated, the timeline goes to the frame of
\* the selected item and, with faceit_use_auto_mirror_x, the rig's mirror
\* option is on exactly for an item without mirror expression.
\* An index outside the list raises inside the callback, which the host
\* reports without undoing the assignment.
update_expression_list_index(S) ==
    IF S.expression_list = <<>> THEN S
    ELSE IF PyPos(S.expression_list, S.list_index) = 0 THEN S
    ELSE IF S.rig_hidden \/ S.shapes_generated THEN S
    ELSE
    LET new_expression == S.expression_list[PyPos(S.expression_list, S.list_index)]
        use_mirror == new_expression.mirror_name = NoName
    IN  [S EXCEPT !.frame_current = new_expression.frame,
                  !.use_mirror_x = IF S.auto_mirror_x THEN use_mirror ELSE @]

\* scene.faceit_expression_list_index = i
SetListIndex(S, i) == update_expression_list_index([S EXCEPT !.list_index = i])

\* scene.frame_start, scene.frame_end = get_action_frame_range(action)
SetFrameRange(S, action) ==
    [S EXCEPT !.frame_start = get_action_frame_range(action)[1],
              !.frame_end = get_action_frame_range(action)[2]]

\* ------------------------------------------- animate_utils (not in src/)
\* a_utils.add_expression_keyframes(rig, frame): the transform channels of the
\* rig's active action are keyed with the current pose at frame and with the
\* rest value at the slot boundaries frame - 9 and frame + 1
AddSlotKeys(fc, dp, frame, pose) ==
    kf_insert(kf_insert(kf_insert(fc, frame - 9, BaseValue(dp)), frame, pose),
              frame + 1, BaseValue(dp))

add_expression_keyframes(action, frame, pose) ==
    [action EXCEPT !.fcurves =
        [dp \in DOMAIN action.fcurves |->
            IF dp \in TransformPaths
            THEN AddSlotKeys(action.fcurves[dp], dp, frame, pose)
            ELSE action.fcurves[dp]]]

\* ------------------------------------------ FACEIT_OT_AddExpressionItem
\* lines 244-300: the item is created and, for a custom shape, keyed
AddCreateItem(S, expression_name, side, custom_shape, procedural, mirror_name_overwrite, pose) ==
    LET list == S.expression_list
        index == Len(list)
        frame == (index + 1) * SlotLen
        final == get_expression_name_double_entries(expression_name, list)
        side2 == IF custom_shape /\ ~poll_side_in_expression_name(side, expression_name)
                 THEN "N" ELSE side
        mirror == IF mirror_name_overwrite # NoName THEN mirror_name_overwrite
                  ELSE IF custom_shape THEN get_mirror_name(side2, final)
                       ELSE NoName
        item == Item(final, frame, side, mirror, procedural)
        sh == IF S.actions[SHAPE].exists THEN S.actions[SHAPE] ELSE NewAction
        ow0 == IF S.actions[OW].exists THEN S.actions[OW] ELSE NewAction
        ow == add_expression_keyframes(EnsureCurves(ow0, TransformPaths), frame, pose)
    IN  IF custom_shape
        THEN [S EXCEPT !.expression_list = Append(list, item),
                       !.actions = [a \in {SHAPE, OW} |-> IF a = SHAPE THEN sh ELSE ow],
                       !.rig_action = OW]
        ELSE [S EXCEPT !.expression_list = Append(list, item)]

\* lines 319-331 of the custom branch: the new item is selected; then the
\* scene range follows the overwrite action
AddFinish(S, index, custom_shape, ow_found) ==
    LET S1 == IF custom_shape THEN SetListIndex(S, index) ELSE S
    IN  IF custom_shape \/ ow_found THEN SetFrameRange(S1, S1.actions[OW]) ELSE S1

\* execute() with auto_mirror off (the call made for the mirror expression)
add_mirror_expression_item(S, expression_name, side, procedural, pose) ==
    AddFinish(AddCreateItem(S, expression_name, side, TRUE, procedural, NoName, pose),
              Len(S.expression_list), TRUE, TRUE)

\* execute(); procedural is 'NONE' or, for a list-only item, 'MOUTHCLOSE',
\* the values for which no procedural animation is generated
add_expression_item(S, expression_name, side, custom_shape, auto_mirror, procedural, mirror_name_overwrite, pose) ==
    LET index == Len(S.expression_list)
        S1 == AddCreateItem(S, expression_name, side, custom_shape, procedural,
                            mirror_name_overwrite, pose)
        item == S1.expression_list[index + 1]
        side2 == IF custom_shape /\ ~poll_side_in_expression_name(side, expression_name)
                 THEN "N" ELSE side
        S2 == IF custom_shape /\ auto_mirror /\ side2 # "N"
              THEN add_mirror_expression_item(S1, item.mirror_name,
                        IF side2 = "L" THEN "R" ELSE "L", procedural, pose)
              ELSE S1
    IN  AddFinish(S2, index, custom_shape, S.actions[OW].exists)

\* ------------------------------------------ FACEIT_OT_ClearFaceitExpressions
\* a variant that leaves the rig's active action in place
clear_faceit_expressions_KeepsRigAction(S, keep_corrective_shape_keys) ==
    LET S1 == SetListIndex([S EXCEPT !.expression_list = <<>>], -1)
    IN  [S1 EXCEPT !.actions = [a \in {SHAPE, OW} |-> NoAction],
                   !.shape_keys = IF keep_corrective_shape_keys THEN @ ELSE {},
                   !.sk_source = IF keep_corrective_shape_keys THEN @ ELSE NoSources,
                   !.result = "FINISHED"]

\* execute(): the list, both actions and the rig's active action are cleared.
\* The corrective shape keys are muted (keep_corrective_shape_keys) or removed;
\* the corrective action is taken off the objects but stays in bpy.data.
clear_faceit_expressions(S, keep_corrective_shape_keys) ==
    LET S1 == SetListIndex([S EXCEPT !.expression_list = <<>>], -1)
    IN  [S1 EXCEPT !.actions = [a \in {SHAPE, OW} |-> NoAction],
                   !.rig_action = "None",
                   !.shape_keys = IF keep_corrective_shape_keys THEN @ ELSE {},
                   !.sk_source = IF keep_corrective_shape_keys THEN @ ELSE NoSources,
                   !.result = "FINISHED"]


\* ------------------------------------------ FACEIT_OT_MoveExpressionItem
\* poll(): the index selects an item
move_poll(S) ==
    /\ S.expression_list # <<>>
    /\ S.list_index >= 0
    /\ S.list_index < Len(S.expression_list)

\* a variant that cancels at the end of the list only
MoveCancels_LastOnly(list, new_index) == new_index = Len(list)

\* line 440: the neighbour would lie outside the list
MoveCancels(list, new_index) == new_index = Len(list) \/ new_index = -1

\* lines 459-470: the points at the two frames change places, through the
\* frame half way between them; then the curve is updated
MoveSwapKeys(fc, expression_frame, new_index_frame, add_frame) ==
    LET half == add_frame \div 2
        p1 == [i \in DOMAIN fc |->
                 IF fc[i].f = new_index_frame
                 THEN Key(fc[i].f - half, fc[i].v) ELSE fc[i]]
        p2 == [i \in DOMAIN p1 |->
                 IF p1[i].f = expression_frame
                 THEN Key(p1[i].f + add_frame, p1[i].v) ELSE p1[i]]
        p3 == [i \in DOMAIN p2 |->
                 IF p2[i].f = new_index_frame - half
                 THEN Key(p2[i].f - half, p2[i].v) ELSE p2[i]]
    IN  fcurve_update(p3)

\* lines 472-482: every point of one corrective curve moves by delta
ShiftCurve(action, name, delta) ==
    IF name \in DOMAIN action.fcurves
    THEN [action EXCEPT !.fcurves[name] =
            fcurve_update([i \in DOMAIN @ |-> Key(@[i].f + delta, @[i].v)])]
    ELSE action

\* collection.move(src, dst); positions outside the list move nothing
list_move(list, src, dst) ==
    IF src < 0 \/ src >= Len(list) \/ dst < 0 \/ dst >= Len(list) THEN list
    ELSE ListMove(list, src, dst)

\* a variant that leaves the selection where it was
move_index_Stays(S, direction, index) == S

\* move_index(): the selection follows the moved item
move_index(S, direction, index) ==
    SetListIndex(S, Max(0, Min(index + (IF direction = "UP" THEN -1 ELSE 1),
                               Len(S.expression_list) - 1)))

\* execute()
move_expression_item(S, direction) ==
    LET list == S.expression_list
        index == S.list_index
        add_index == IF direction = "UP" THEN -1 ELSE 1
        new_index == index + add_index
        add_frame == add_index * SlotLen
    IN  IF MoveCancels(list, new_index) THEN [S EXCEPT !.result = "CANCELLED"]
        ELSE IF PyPos(list, new_index) = 0 THEN [S EXCEPT !.result = "ERROR"]
        ELSE
        LET expression_item == list[index + 1]
            new_index_item == list[PyPos(list, new_index)]
            expression_frame == expression_item.frame
            new_index_frame == new_index_item.frame
            Swap(fc) == MoveSwapKeys(fc, expression_frame, new_index_frame, add_frame)
            acts == [a \in {SHAPE, OW} |->
                        IF S.actions[a].exists THEN
                            [S.actions[a] EXCEPT !.fcurves = [dp \in DOMAIN @ |-> Swap(@[dp])]]
                        ELSE S.actions[a]]
            cc == IF S.cc_action.exists
                  THEN ShiftCurve(ShiftCurve(S.cc_action, expression_item.name, add_frame),
                                  new_index_item.name, -add_frame)
                  ELSE S.cc_action
            list1 == [list EXCEPT ![index + 1].frame = new_index_frame,
                                  ![PyPos(list, new_index)].frame = expression_frame]
            list2 == list_move(list1, new_index, index)
        IN  move_index([S EXCEPT !.actions = acts, !.cc_action = cc,
                                 !.expression_list = list2, !.result = "FINISHED"],
                       direction, index)

\* ------------------------------------------ FACEIT_OT_RemoveExpressionItem
remove_poll(S) ==
    S.list_index >= 0 /\ S.list_index < Len(S.expression_list)

\* lines 1401-1408 and 1412-1419 for one curve
RemoveSlotKeys(fc, frame) == ShiftAfter(RemoveLoop(fc, frame, 1), frame)

\* a variant that leaves the frames of the items behind as they were
RemoveFromList_NoShift(list, item_index, frame) == RemoveAt(list, item_index + 1)

\* lines 1421-1424: the item leaves the list, the items behind it move up
RemoveFromList(list, item_index, frame) ==
    LET rest == RemoveAt(list, item_index + 1)
    IN  [i \in DOMAIN rest |->
            IF rest[i].frame > frame
            THEN [rest[i] EXCEPT !.frame = @ - SlotLen] ELSE rest[i]]

\* _remove_faceit_item(item)
remove_faceit_item(S, item) ==
    LET list == S.expression_list
        item_index == ListFind(list, item.name)
        frame == item.frame
        Cut(fc) == RemoveSlotKeys(fc, frame)
    IN  [S EXCEPT
            !.actions = [a \in {SHAPE, OW} |->
                            IF S.actions[a].exists THEN
                                [S.actions[a] EXCEPT !.fcurves = [dp \in DOMAIN @ |-> Cut(@[dp])]]
                            ELSE S.actions[a]],
            !.cc_action = IF S.cc_action.exists THEN
                              [S.cc_action EXCEPT !.fcurves = [dp \in DOMAIN @ |-> Cut(@[dp])]]
                          ELSE S.cc_action,
            !.expression_list = RemoveFromList(list, item_index, frame)]

\* a variant that leaves the scene frame range as it was
RemoveLast_KeepsRange(S) == clear_faceit_expressions(S, TRUE)

\* lines 1387-1390: the last expression goes by clearing everything
RemoveLast(S) ==
    [clear_faceit_expressions(S, TRUE) EXCEPT
        !.frame_start = 1, !.frame_end = 250, !.result = "FINISHED"]

\* a variant that always takes the selected item
RemoveTarget_Selected(list, list_index, remove_item) == list[list_index + 1]

\* lines 1428-1431: the item named by remove_item, else the selected item
RemoveTarget(list, list_index, remove_item) ==
    IF remove_item # NoName THEN list[ListFind(list, remove_item) + 1]
    ELSE list[list_index + 1]

\* execute(); remove_item = '' removes the selected item
remove_expression_item(S, remove_item) ==
    LET list == S.expression_list
    IN  IF Len(list) <= 1 THEN RemoveLast(S)
        ELSE IF remove_item # NoName /\ remove_item \notin ListNames(list)
        THEN [S EXCEPT !.result = "ERROR"]
        ELSE
        LET item == RemoveTarget(list, S.list_index, remove_item)
            S1 == remove_faceit_item(S, item)
            count == Len(S1.expression_list)
            S2 == IF S.list_index >= count THEN SetListIndex(S1, count - 1) ELSE S1
            S3 == IF S.actions[OW].exists THEN SetFrameRange(S2, S2.actions[OW]) ELSE S2
        IN  [S3 EXCEPT !.result = "FINISHED"]


\* ------------------------------------------------------------ .face files
nJawOpen == <<"j","a","w","O","p","e","n">>

nMouthClose == <<"m","o","u","t","h","C","l","o","s","e">>

nA == <<"a">>

nBL == <<"b","L">>

nBR == <<"b","R">>

nEyeBlinkLeft == <<"e","y","e","B","l","i","n","k","L","e","f","t">>

nEyeBlinkRight == <<"e","y","e","B","l","i","n","k","R","i","g","h","t">>

\* One entry of data['expressions']: keys holds the keys the entry has.
Entry(name, keys, side, mirror_name, procedural) ==
    [name |-> name, keys |-> keys, side |-> side, mirror_name |-> mirror_name,
     procedural |-> procedural]

\* File 1 is the ARKit preset (load_custom_path off): a jaw-open and a
\* mouth-close expression; the pose of the mouth-close expression is
\* generated on load, the file stores none.  File 2 is a custom file of one
\* left expression.
\* 'action' holds, per data path, the pose keys of the expressions at the
\* frames 10, 20, .. the export wrote them at.
Files ==
    <<[preset |-> "ARKIT",
       expressions |-> <<Entry(nJawOpen, {}, "", NoName, ""),
                         Entry(nMouthClose, {"side", "mirror_name", "procedural"},
                               "N", NoName, "MOUTHCLOSE")>>,
       action |-> [dp \in {"jaw", "lip"} |->
                     IF dp = "jaw" THEN <<Key(10, 2)>> ELSE <<Key(10, 3)>>]],
      [preset |-> "CUSTOM",
       expressions |-> <<Entry(nBL, {"side", "mirror_name"}, "L", nBR, "")>>,
       action |-> [dp \in {"scale"} |-> <<Key(10, 5)>>]]>>

\* no file written yet
NoFile == [preset |-> "NONE", expressions |-> <<>>, action |-> NoCurves]

\* a variant that drops the mirror name of the file
EntryMirrorName_None(e) == NoName

\* expression_data.get('mirror_name', '') etc. (lines 960-962)
EntryMirrorName(e) == IF "mirror_name" \in e.keys THEN e.mirror_name ELSE NoName

EntrySide(e) == IF "side" \in e.keys /\ e.side # "" THEN e.side ELSE "N"

EntryProcedural(e) == IF "procedural" \in e.keys THEN e.procedural ELSE "NONE"

\* ------------------------------------------- animate_utils (not in src/)
\* a_utils.remove_all_animation_for_frame(action, frame)
remove_all_animation_for_frame(action, frame) ==
    LET Drop(fc) == SelectSeq(fc, LAMBDA k : k.f # frame)
    IN  [action EXCEPT !.fcurves = [dp \in DOMAIN @ |-> Drop(@[dp])]]

\* a_utils.copy_keyframe(action, frame_from, frame_to, dp_filter)
copy_keyframe(action, frame_from, frame_to, dps) ==
    [action EXCEPT !.fcurves =
        [dp \in DOMAIN action.fcurves |->
            IF dp \in dps /\ KeysAt(action.fcurves[dp], frame_from) # <<>>
            THEN kf_insert(action.fcurves[dp], frame_to,
                           KeysAt(action.fcurves[dp], frame_from)[1].v)
            ELSE action.fcurves[dp]]]

\* a_utils.backup_expression(action, backup_action, frame): the points of the
\* expression frame are copied to the backup action
backup_expression(action, backup_action, frame) ==
    LET dps == DOMAIN action.fcurves \cup DOMAIN backup_action.fcurves
        Old(dp) == IF dp \in DOMAIN backup_action.fcurves
                   THEN SelectSeq(backup_action.fcurves[dp], LAMBDA k : k.f # frame)
                   ELSE <<>>
        New(dp) == IF dp \in DOMAIN action.fcurves
                   THEN KeysAt(action.fcurves[dp], frame) ELSE <<>>
    IN  [backup_action EXCEPT !.fcurves =
            [dp \in dps |-> fcurve_update(Old(dp) \o New(dp))]]

\* a_utils.create_overwrite_animation(rig): the overwrite action starts as a
\* copy of the action the rig holds
create_overwrite_animation(action) == action

\* rig.keyframe_insert(data_path, frame) with the bone at value v
rig_keyframe_insert(action, dp, frame, v) ==
    LET a == get_fcurve_from_bpy_struct(action, dp)
    IN  [a EXCEPT !.fcurves[dp] = kf_insert(@, frame, v)]

RECURSIVE KeyPaths(_, _, _)
KeyPaths(action, dps, frame) ==
    IF dps = {} THEN action
    ELSE LET dp == CHOOSE x \in dps : TRUE
         IN  KeyPaths(rig_keyframe_insert(action, dp, frame, BaseValue(dp)),
                      dps \ {dp}, frame)

\* ------------------------------------------ FACEIT_OT_ProceduralMouthClose
\* lines 2090-2105: mouth_lock is keyed 0 at f - 10 and f + 1, 1 at f - 9 and f
MouthLockKeys(action, f) ==
    rig_keyframe_insert(
        rig_keyframe_insert(
            rig_keyframe_insert(
                rig_keyframe_insert(action, "lock", f - 10, 0),
                "lock", f + 1, 0),
            "lock", f - 9, 1),
        "lock", f, 1)

\* execute(), called with the rig holding the overwrite action
procedural_mouth_close(S, jaw_open_expression, mouth_close_expression) ==
    LET list == S.expression_list
        sh0 == IF S.actions[SHAPE].exists THEN S.actions[SHAPE] ELSE NewAction
        ow0 == IF S.actions[OW].exists THEN S.actions[OW] ELSE NewAction
    IN  IF \/ ListFind(list, jaw_open_expression) = -1
           \/ ListFind(list, mouth_close_expression) = -1
        THEN [S EXCEPT !.actions = [a \in {SHAPE, OW} |-> IF a = SHAPE THEN sh0 ELSE ow0],
                       !.result = "ERROR"]
        ELSE
        LET jaw_frame == list[ListFind(list, jaw_open_expression) + 1].frame
            mc_frame == list[ListFind(list, mouth_close_expression) + 1].frame
            ow1 == remove_all_animation_for_frame(ow0, mc_frame)
            ow2 == KeyPaths(ow1, LipPaths, mc_frame)
            ow3 == copy_keyframe(ow2, jaw_frame, mc_frame, JawMasterPaths)
            ow4 == MouthLockKeys(ow3, mc_frame)
            sh1 == backup_expression(ow4, sh0, mc_frame)
        IN  [S EXCEPT !.actions = [a \in {SHAPE, OW} |-> IF a = SHAPE THEN sh1 ELSE ow4],
                      !.frame_current = S.frame_start,
                      !.result = "FINISHED"]


\* ------------------------- corrective_shape_keys_utils (not in src/)
\* the three points a corrective shape key is keyed with (cf. lines 1775-1779)
CorrectiveKeys(frame) == <<Key(frame - 9, 0), Key(frame, 1), Key(frame + 1, 0)>>

SetCurve(action, dp, fc) ==
    [exists |-> TRUE,
     fcurves |-> [x \in DOMAIN action.fcurves \cup {dp} |->
                    IF x = dp THEN fc ELSE action.fcurves[x]]]

\* reevaluate_corrective_shape_keys(expression_list, objects): an expression
\* whose shape key 'faceit_cc_<name>' exists gets it keyed at its slot
RECURSIVE ReevaluateFrom(_, _)
ReevaluateFrom(S, i) ==
    IF i > Len(S.expression_list) THEN S
    ELSE LET e == S.expression_list[i]
         IN  IF e.name \in S.shape_keys
             THEN ReevaluateFrom(
                    [S EXCEPT !.expression_list[i].corr_shape_key = TRUE,
                              !.cc_action = SetCurve(S.cc_action, e.name,
                                                     CorrectiveKeys(e.frame))],
                    i + 1)
             ELSE ReevaluateFrom(S, i + 1)

reevaluate_corrective_shape_keys(S) == ReevaluateFrom(S, 1)

\* clear_all_corrective_shape_keys(objects, expression_list)
clear_all_corrective_shape_keys(S) ==
    [S EXCEPT !.shape_keys = {},
              !.sk_source = NoSources,
              !.cc_action = IF @.exists THEN NewAction ELSE @,
              !.expression_list =
                  [i \in DOMAIN @ |-> [@[i] EXCEPT !.corr_shape_key = FALSE]]]

\* the operator that sculpts a corrective shape key for the selected expression
add_corrective_shape_key(S) ==
    LET e == S.expression_list[S.list_index + 1]
    IN  [S EXCEPT !.shape_keys = @ \cup {e.name},
                  !.sk_source = SetSource(@, e.name, {}),
                  !.expression_list[S.list_index + 1].corr_shape_key = TRUE,
                  !.cc_action = SetCurve(S.cc_action, e.name, CorrectiveKeys(e.frame)),
                  !.result = "FINISHED"]

\* ------------------------------------------ FACEIT_OT_AppendActionToFaceitRig
\* a variant that falls back on an empty list only
EffectiveLoadMethod_ListOnly(S, load_method) ==
    IF load_method = "APPEND" /\ S.expression_list = <<>> THEN "OVERWRITE"
    ELSE load_method

\* lines 697-708: APPEND falls back to OVERWRITE
EffectiveLoadMethod(S, load_method) ==
    IF load_method = "APPEND"
       /\ (\/ S.expression_list = <<>>
           \/ ~S.actions[SHAPE].exists
           \/ ~S.actions[OW].exists)
    THEN "OVERWRITE"
    ELSE load_method

\* lines 769-776: the slot boundaries of the loaded expressions
LoadZeroFrames(count) ==
    UNION {{i * SlotLen + 1, i * SlotLen - 9} : i \in 1..count}

\* lines 782-823: the temporary action read from the file; every loaded
\* channel gets the rest value at every slot boundary
LoadTempAction(file) ==
    LET dps == {dp \in DOMAIN file.action : ~IsInfluencePath(dp)}
        zero == LoadZeroFrames(Len(file.expressions))
        Base(dp) == kf_insert_all(<<>>, zero, BaseValue(dp))
    IN  [exists |-> TRUE,
         fcurves |-> [dp \in dps |->
            populate_keyframe_points_from_np_array(<<>>, file.action[dp] \o Base(dp))]]

\* lines 923-941: the loaded points are placed behind the overwrite action
AppendOffset(ow_action) == get_action_frame_range(ow_action)[2] - 1

AppendCurves(action, temp, frame_offset) ==
    LET a == EnsureCurves(action, DOMAIN temp.fcurves)
        Moved(fc) == [i \in DOMAIN fc |-> Key(fc[i].f + frame_offset, fc[i].v)]
    IN  [a EXCEPT !.fcurves =
            [dp \in DOMAIN a.fcurves |->
                IF dp \in DOMAIN temp.fcurves
                THEN populate_keyframe_points_from_np_array(a.fcurves[dp],
                                                            Moved(temp.fcurves[dp]))
                ELSE a.fcurves[dp]]]

\* lines 958-970: one list item per expression of the file
RECURSIVE LoadExpressions(_, _, _)
LoadExpressions(S, entries, i) ==
    IF i > Len(entries) THEN S
    ELSE LoadExpressions(
            add_expression_item(S, entries[i].name, EntrySide(entries[i]), FALSE, FALSE,
                                EntryProcedural(entries[i]), EntryMirrorName(entries[i]), 0),
            entries, i + 1)

\* execute(), without rescaling of the poses
append_action_to_faceit_rig(S, file, load_method, apply_existing_corrective_shape_keys) ==
    LET method == EffectiveLoadMethod(S, load_method)
        save_frame == S.frame_current
        temp == LoadTempAction(file)
        S1 == IF method = "OVERWRITE"
              THEN [S EXCEPT !.expression_list = <<>>,
                             !.actions = [a \in {SHAPE, OW} |-> NoAction]]
              ELSE S
        sh == IF method = "OVERWRITE" THEN temp
              ELSE AppendCurves(S1.actions[SHAPE], temp, AppendOffset(S1.actions[OW]))
        ow == IF method = "OVERWRITE" THEN create_overwrite_animation(temp)
              ELSE AppendCurves(S1.actions[OW], temp, AppendOffset(S1.actions[OW]))
        S2 == [S1 EXCEPT !.actions = [a \in {SHAPE, OW} |-> IF a = SHAPE THEN sh ELSE ow],
                         !.rig_action = OW]
        S3 == LoadExpressions(S2, file.expressions, 1)
        S4 == IF file.preset = "ARKIT"
              THEN procedural_mouth_close(S3, nJawOpen, nMouthClose)
              ELSE S3
        S5 == IF apply_existing_corrective_shape_keys
              THEN reevaluate_corrective_shape_keys(S4)
              ELSE clear_all_corrective_shape_keys(S4)
    IN  [SetFrameRange(S5, S5.actions[OW]) EXCEPT
            !.frame_current = save_frame, !.result = "FINISHED"]

\* ------------------------------------------ FACEIT_OT_ForceZeroFrames
force_zero_poll(S) == S.expression_list # <<>> /\ S.rig_action # "None"

\* lines 1054-1059
ZeroFrames(list) == UNION {{list[i].frame + 1, list[i].frame - 9} : i \in DOMAIN list}

\* a variant that keys the rest value on the first zero frame only
ForceZeroCurve_FirstOnly(fc, dp, zero_frames) ==
    IF IsInfluencePath(dp) THEN fc
    ELSE fcurve_update(kf_insert(fc, SetMin(zero_frames), BaseValue(dp)))

\* lines 1080-1094 for one curve
ForceZeroCurve(fc, dp, zero_frames) ==
    IF IsInfluencePath(dp) THEN fc
    ELSE fcurve_update(kf_insert_all(fc, zero_frames, BaseValue(dp)))

\* execute(): the control bones are keyed at rest on the first zero frame
\* (lines 1061-1074), then every curve of the rig's action gets the rest value
\* at every zero frame
force_zero_frames(S) ==
    LET zero_frames == ZeroFrames(S.expression_list)
        a0 == KeyPaths(S.actions[S.rig_action], TransformPaths, SetMin(zero_frames))
        a1 == [a0 EXCEPT !.fcurves =
                [dp \in DOMAIN a0.fcurves |->
                    ForceZeroCurve(a0.fcurves[dp], dp, zero_frames)]]
    IN  [S EXCEPT !.actions[S.rig_action] = a1, !.result = "FINISHED"]


\* ------------------------------------------ FACEIT_OT_ExportExpressionsToJson
\* poll(): expressions exist and the rig holds an action
export_poll(S) == S.expression_list # <<>> /\ S.rig_action # "None"

\* a variant that writes the procedural value of every item as it is
ExportProcedural_AsIs(name, procedural) == procedural

\* lines 1200-1202: an eye blink expression is written as procedural
ExportProcedural(name, procedural) ==
    IF name \in {nEyeBlinkLeft, nEyeBlinkRight} /\ procedural = "NONE"
    THEN "EYEBLINKS" ELSE procedural

\* lines 1198-1207: data['expressions'], in list order
ExportExpressionList(list) ==
    [i \in DOMAIN list |->
        Entry(list[i].name, {"mirror_name", "side", "procedural"}, list[i].side,
              list[i].mirror_name, ExportProcedural(list[i].name, list[i].procedural))]

\* lines 1232-1244: of a transform curve the points on the slot frames that
\* differ from the rest value are written, of mouth_lock every point
ExportCurve(fc, dp) ==
    IF IsMouthLockPath(dp) THEN fc
    ELSE SelectSeq(fc, LAMBDA k : k.f % SlotLen = 0 /\ k.v # BaseValue(dp))

\* lines 1218-1254: data['action']; constraint curves and empty curves are left out
ExportAction(action) ==
    LET dps == {dp \in DOMAIN action.fcurves :
                  ~IsInfluencePath(dp) /\ ExportCurve(action.fcurves[dp], dp) # <<>>}
    IN  [dp \in dps |-> ExportCurve(action.fcurves[dp], dp)]

\* execute(): the file written
export_expressions(S) ==
    [preset |-> "CUSTOM",
     expressions |-> ExportExpressionList(S.expression_list),
     action |-> ExportAction(S.actions[S.rig_action])]

\* ------------------------------------------ FACEIT_OT_MirrorOverwriteAnimation
nACTIVE == <<"A","C","T","I","V","E">>

nALL == <<"A","L","L">>

\* lines 1685-1688: every expression, or the one whose name is given
ExpressionsToMirror(list, expression_to_mirror) ==
    IF expression_to_mirror = nALL THEN list
    ELSE <<list[ListFind(list, expression_to_mirror) + 1]>>

\* lines 1708-1717: the pose at the frame of the expression is pasted, with
\* auto keying, at the frame of its mirror expression
PastePose(action, frame_from, frame_to) ==
    [action EXCEPT !.fcurves =
        [dp \in DOMAIN @ |->
            IF KeysAt(@[dp], frame_from) # <<>>
            THEN kf_insert(@[dp], frame_to, KeysAt(@[dp], frame_from)[1].v)
            ELSE @[dp]]]

\* lines 1697-1721: the loop over the expressions to mirror
RECURSIVE MirrorPoses(_, _, _)
MirrorPoses(S, exps, i) ==
    IF i > Len(exps) THEN S
    ELSE
    LET exp == exps[i]
        S1 == [S EXCEPT !.frame_current = exp.frame]
        idx == ListFind(S.expression_list, exp.mirror_name)
    IN  IF exp.mirror_name = NoName \/ idx = -1 THEN MirrorPoses(S1, exps, i + 1)
        ELSE
        LET mirror_expression == S.expression_list[idx + 1]
            S2 == IF S1.rig_action # "None"
                  THEN [S1 EXCEPT !.actions[S1.rig_action] =
                           PastePose(@, exp.frame, mirror_expression.frame)]
                  ELSE S1
            S3 == [S2 EXCEPT !.frame_current = mirror_expression.frame]
        IN  MirrorPoses(SetListIndex(S3, idx), exps, i + 1)

\* lines 1769-1779: the corrective shape key of ob_exp is copied to the
\* mirror expression and keyed at its slot
MirrorShapeKey(S, ob_exp, mirror_name) ==
    IF ob_exp.name \notin S.shape_keys THEN S
    ELSE
    LET idx == ListFind(S.expression_list, mirror_name)
        frame == S.expression_list[idx + 1].frame
        fc0 == get_fcurve_from_bpy_struct(S.cc_action, mirror_name).fcurves[mirror_name]
        fc1 == kf_insert(kf_insert(kf_insert(fc0, frame - 9, 0), frame + 1, 0), frame, 1)
    IN  [S EXCEPT !.shape_keys = @ \cup {mirror_name},
                  !.sk_source = SetSource(@, mirror_name,
                                    BlendSource(S.shape_keys, ob_exp.name, mirror_name)),
                  !.expression_list[idx + 1].corr_shape_key = TRUE,
                  !.cc_action = SetCurve(S.cc_action, mirror_name, fc1)]

RECURSIVE MirrorShapeKeysOf(_, _, _, _)
MirrorShapeKeysOf(S, exps, mirror_name, j) ==
    IF j > Len(exps) THEN S
    ELSE MirrorShapeKeysOf(MirrorShapeKey(S, exps[j], mirror_name), exps, mirror_name, j + 1)

\* lines 1732-1766: for every expression with a mirror expression in the list
RECURSIVE MirrorCorrectives(_, _, _)
MirrorCorrectives(S, exps, i) ==
    IF i > Len(exps) THEN S
    ELSE IF \/ exps[i].mirror_name = NoName
            \/ ListFind(S.expression_list, exps[i].mirror_name) = -1
            \/ ~S.cc_action.exists
         THEN MirrorCorrectives(S, exps, i + 1)
         ELSE MirrorCorrectives(MirrorShapeKeysOf(S, exps, exps[i].mirror_name, 1),
                                exps, i + 1)

\* execute(); the lookup of an expression that is not in the list raises
mirror_overwrite(S, expression_to_mirror, mirror_corrective_sk) ==
    IF /\ expression_to_mirror # nALL
       /\ expression_to_mirror \notin ListNames(S.expression_list)
    THEN [S EXCEPT !.result = "ERROR"]
    ELSE
    LET exps == ExpressionsToMirror(S.expression_list, expression_to_mirror)
        S1 == MirrorPoses(S, exps, 1)
        S2 == IF mirror_corrective_sk THEN MirrorCorrectives(S1, exps, 1) ELSE S1
    IN  [S2 EXCEPT !.result = "FINISHED"]

\* ------------------------------------------------------- the state machine
Op(idname, result, direction, name, method, file, flag) ==
    [idname |-> idname, result |-> result, direction |-> direction, name |-> name,
     method |-> method, file |-> file, flag |-> flag]

InitScene ==
    /\ faceit_expression_list = <<>>
    /\ faceit_expression_list_index = 0
    /\ actions = [a \in {SHAPE, OW} |-> NoAction]
    /\ cc_action = NoAction
    /\ rig_action = "None"
    /\ shape_keys = {}
    /\ sk_source = NoSources
    /\ frame_start = 1
    /\ frame_end = 250
    /\ frame_current = 1
    /\ exported = NoFile
    /\ exported_list = <<>>
    /\ use_mirror_x = FALSE
    /\ mocap_actions = {}
    /\ sk_action = "None"
    /\ mocap_action = "None"
    /\ op = Op("init", "FINISHED", "", NoName, "", 0, FALSE)
    /\ nops = 0

\* the rig is visible, the expression shapes are not generated and the scene
\* options are at their defaults
Init ==
    /\ InitScene
    /\ rig_hidden = FALSE
    /\ shapes_generated = FALSE
    /\ auto_mirror_x = TRUE
    /\ blendshapes_target = TRUE

\* the scene options no operator of this module writes
OptionsUnchanged ==
    UNCHANGED <<rig_hidden, shapes_generated, auto_mirror_x, blendshapes_target>>

\* the actions used for motion capture stay as they are
MocapUnchanged == UNCHANGED <<mocap_actions, sk_action, mocap_action>>

\* the operator has run and left the scene in state S
Commit(S, o) ==
    /\ faceit_expression_list' = S.expression_list
    /\ faceit_expression_list_index' = S.list_index
    /\ actions' = S.actions
    /\ cc_action' = S.cc_action
    /\ rig_action' = S.rig_action
    /\ shape_keys' = S.shape_keys
    /\ sk_source' = S.sk_source
    /\ frame_start' = S.frame_start
    /\ frame_end' = S.frame_end
    /\ frame_current' = S.frame_current
    /\ exported' = exported
    /\ exported_list' = exported_list
    /\ use_mirror_x' = S.use_mirror_x
    /\ OptionsUnchanged
    /\ MocapUnchanged
    /\ op' = o
    /\ nops' = nops + 1

\* the calls of faceit.add_expression_item explored:
\* a list-only item, a custom expression, a custom left expression with mirror
AddCalls ==
    {[expression_name |-> nA, side |-> "N", custom_shape |-> FALSE, auto_mirror |-> FALSE],
     [expression_name |-> nA, side |-> "N", custom_shape |-> TRUE, auto_mirror |-> FALSE],
     [expression_name |-> nBL, side |-> "L", custom_shape |-> TRUE, auto_mirror |-> TRUE]}

PoseValue == {7}

AddedItems(c) == IF c.custom_shape /\ c.auto_mirror THEN 2 ELSE 1

AddExpressionItem ==
    /\ nops < MaxOps
    /\ \E c \in AddCalls, pose \in PoseValue :
        /\ Len(faceit_expression_list) + AddedItems(c) <= MaxLen
        /\ Commit(add_expression_item(State, c.expression_name, c.side, c.custom_shape,
                                      c.auto_mirror, "NONE", NoName, pose),
                  Op("add_expression_item", "FINISHED", "", c.expression_name, "", 0,
                     c.custom_shape))

MoveExpressionItem ==
    /\ nops < MaxOps
    /\ move_poll(State)
    /\ \E direction \in {"UP", "DOWN"} :
        LET S == move_expression_item(State, direction)
        IN  Commit(S, Op("move_expression_item", S.result, direction, NoName, "", 0, FALSE))

RemoveExpressionItem ==
    /\ nops < MaxOps
    /\ remove_poll(State)
    /\ \E remove_item \in {NoName, nA} \cup ListNames(faceit_expression_list) :
        LET S == remove_expression_item(State, remove_item)
        IN  Commit(S, Op("remove_expression_item", S.result, "", remove_item, "", 0, FALSE))

ClearFaceitExpressions ==
    /\ nops < MaxOps
    /\ \E keep \in BOOLEAN :
        Commit(clear_faceit_expressions(State, keep),
               Op("clear_faceit_expressions", "FINISHED", "", NoName, "", 0, keep))

AppendActionToFaceitRig ==
    /\ nops < MaxOps
    /\ \E file \in DOMAIN Files, load_method \in {"APPEND", "OVERWRITE"}, apply \in BOOLEAN :
        /\ Len(Files[file].expressions)
             + (IF EffectiveLoadMethod(State, load_method) = "APPEND"
                THEN Len(faceit_expression_list) ELSE 0) <= MaxLen
        /\ Commit(append_action_to_faceit_rig(State, Files[file], load_method, apply),
                  Op("append_action_to_faceit_rig", "FINISHED", "", NoName,
                     load_method, file, apply))

ForceZeroFrames ==
    /\ nops < MaxOps
    /\ force_zero_poll(State)
    /\ Commit(force_zero_frames(State),
              Op("force_zero_frames", "FINISHED", "", NoName, "", 0, FALSE))

\* the user selects an item in the expression list
SelectExpression ==
    /\ nops < MaxOps
    /\ \E i \in 0..(Len(faceit_expression_list) - 1) :
        /\ i # faceit_expression_list_index
        /\ Commit([SetListIndex(State, i) EXCEPT !.result = "FINISHED"],
                  Op("select", "FINISHED", "", NoName, "", 0, FALSE))

AddCorrectiveShapeKey ==
    /\ nops < MaxOps
    /\ remove_poll(State)
    /\ faceit_expression_list[faceit_expression_list_index + 1].name \notin shape_keys
    /\ Commit(add_corrective_shape_key(State),
              Op("add_corrective_shape_key", "FINISHED", "", NoName, "", 0, FALSE))

Next ==
    \/ AddExpressionItem
    \/ MoveExpressionItem
    \/ RemoveExpressionItem
    \/ ClearFaceitExpressions
    \/ AppendActionToFaceitRig
    \/ ForceZeroFrames
    \/ SelectExpression
    \/ AddCorrectiveShapeKey

Spec == Init /\ [][Next]_vars

\* ---------------------------------------- export and import of a .face file
\* the calls of faceit.add_expression_item explored with export:
\* a list-only item, a left eye blink with its mirror, a custom left expression
AddCallsFile ==
    {[expression_name |-> nA, side |-> "N", custom_shape |-> FALSE, auto_mirror |-> FALSE],
     [expression_name |-> nEyeBlinkLeft, side |-> "L", custom_shape |-> TRUE,
      auto_mirror |-> TRUE],
     [expression_name |-> nBL, side |-> "L", custom_shape |-> TRUE, auto_mirror |-> FALSE]}

AddExpressionItemFile ==
    /\ nops < MaxOps
    /\ \E c \in AddCallsFile, pose \in PoseValue :
        /\ Len(faceit_expression_list) + AddedItems(c) <= MaxLen
        /\ Commit(add_expression_item(State, c.expression_name, c.side, c.custom_shape,
                                      c.auto_mirror, "NONE", NoName, pose),
                  Op("add_expression_item", "FINISHED", "", c.expression_name, "", 0,
                     c.custom_shape))

ExportExpressions ==
    /\ nops < MaxOps
    /\ export_poll(State)
    /\ exported' = export_expressions(State)
    /\ exported_list' = faceit_expression_list
    /\ op' = Op("export_expressions", "FINISHED", "", NoName, "", 0, FALSE)
    /\ nops' = nops + 1
    /\ OptionsUnchanged
    /\ MocapUnchanged
    /\ UNCHANGED <<faceit_expression_list, faceit_expression_list_index, actions,
                   cc_action, rig_action, shape_keys, frame_start, frame_end,
                   frame_current, use_mirror_x, sk_source>>

\* append_action_to_faceit_rig with load_custom_path and the exported file
LoadExportedFile ==
    /\ nops < MaxOps
    /\ exported # NoFile
    /\ \E load_method \in {"APPEND", "OVERWRITE"}, apply \in BOOLEAN :
        /\ Len(exported.expressions)
             + (IF EffectiveLoadMethod(State, load_method) = "APPEND"
                THEN Len(faceit_expression_list) ELSE 0) <= MaxLen
        /\ Commit(append_action_to_faceit_rig(State, exported, load_method, apply),
                  Op("append_action_to_faceit_rig", "FINISHED", "", NoName,
                     load_method, 0, apply))

NextFile ==
    \/ AddExpressionItemFile
    \/ MoveExpressionItem
    \/ RemoveExpressionItem
    \/ AppendActionToFaceitRig
    \/ ExportExpressions
    \/ LoadExportedFile

SpecFile == Init /\ [][NextFile]_vars


\* ================================================================ claims
Finished(idname) == op.idname = idname /\ op.result = "FINISHED"

\* the call that leads to the next state is idname and it finishes
Finishes(idname) == op'.idname = idname /\ op'.result = "FINISHED"

\* C1: in every reachable state the item at 0-based list position i has
\* frame 10 * (i + 1); the frames are then distinct and increasing
C1_SlotInvariant ==
    \A i \in DOMAIN faceit_expression_list :
        faceit_expression_list[i].frame = SlotLen * i

\* a list of three or more, one item of which was added under a name already
\* taken, has just been reordered
C1_Witness ==
    /\ Finished("move_expression_item")
    /\ Len(faceit_expression_list) >= 3
    /\ (nA \o NameSuffix(1)) \in ListNames(faceit_expression_list)

\* the points of a curve of an action at a frame; none when the curve is missing
CurveKeysAt(action, dp, f) ==
    IF dp \in DOMAIN action.fcurves THEN KeysAt(action.fcurves[dp], f) ELSE <<>>

\* their values, in array order
CurveValuesAt(action, dp, f) ==
    [i \in DOMAIN CurveKeysAt(action, dp, f) |-> CurveKeysAt(action, dp, f)[i].v]

ItemNamed(list, name) == list[ListFind(list, name) + 1]

\* the points at the frame of every remaining expression are the ones that
\* were at its frame before the step, in both rig actions and the corrective one
Lockstep ==
    \A i \in DOMAIN faceit_expression_list' :
        LET new == faceit_expression_list'[i]
            old == ItemNamed(faceit_expression_list, new.name)
        IN  /\ \A a \in {SHAPE, OW} :
                \A dp \in DOMAIN actions[a].fcurves \cup DOMAIN actions'[a].fcurves :
                    CurveValuesAt(actions'[a], dp, new.frame)
                        = CurveValuesAt(actions[a], dp, old.frame)
            /\ \A dp \in DOMAIN cc_action.fcurves \cup DOMAIN cc_action'.fcurves :
                    CurveValuesAt(cc_action', dp, new.frame)
                        = CurveValuesAt(cc_action, dp, old.frame)

\* C2: every successful move_expression_item and remove_expression_item
\* leaves, at the frame of each remaining expression, exactly the keyframes
\* (curve and value) that were at that expression's frame before it, in each
\* of the three actions; by induction the same holds of any sequence of them
C2_LockstepRetiming ==
    [][(Finishes("move_expression_item") \/ Finishes("remove_expression_item"))
        => Lockstep]_vars

\* the frames a curve of an action is keyed at; none when the curve is missing
CurveFrames(action, dp) ==
    IF dp \in DOMAIN action.fcurves THEN FramesOf(action.fcurves[dp]) ELSE {}

\* C3: in every reachable state overwrite_shape_action and faceit_shape_action
\* hold keyframes at the same set of frames on every curve
C3_ActionsInSync ==
    \A dp \in DOMAIN actions[OW].fcurves \cup DOMAIN actions[SHAPE].fcurves :
        CurveFrames(actions[OW], dp) = CurveFrames(actions[SHAPE], dp)

\* C4: a move that does not cancel exchanges the selected item with its
\* neighbour in the given direction and exchanges their frames; length, names
\* and every other item stay, and the selection follows the moved item
C4_MoveExchanges ==
    [][Finishes("move_expression_item") =>
        LET list == faceit_expression_list
            i == faceit_expression_list_index + 1
            j == IF op'.direction = "UP" THEN i - 1 ELSE i + 1
        IN  /\ j \in DOMAIN list
            /\ Len(faceit_expression_list') = Len(list)
            /\ ListNames(faceit_expression_list') = ListNames(list)
            /\ faceit_expression_list'[j] = [list[i] EXCEPT !.frame = list[j].frame]
            /\ faceit_expression_list'[i] = [list[j] EXCEPT !.frame = list[i].frame]
            /\ \A h \in DOMAIN list \ {i, j} : faceit_expression_list'[h] = list[h]
            /\ faceit_expression_list_index' = j - 1]_vars

\* the middle item of a list of three has just been moved
C4_Witness ==
    /\ Finished("move_expression_item")
    /\ Len(faceit_expression_list) >= 3
    /\ faceit_expression_list_index \in {0, 2}
    /\ actions[OW].exists

\* the scene data the operators edit
SceneData ==
    <<faceit_expression_list, faceit_expression_list_index, actions, cc_action,
      rig_action, shape_keys, frame_start, frame_end, frame_current>>

\* C5: move UP on the first item and move DOWN on the last item return
\* CANCELLED and change neither the list, the selection nor any keyframe
C5_MoveAtEndCancels ==
    [][(/\ op'.idname = "move_expression_item"
        /\ \/ op'.direction = "UP" /\ faceit_expression_list_index = 0
           \/ op'.direction = "DOWN"
                /\ faceit_expression_list_index = Len(faceit_expression_list) - 1)
        => (op'.result = "CANCELLED" /\ UNCHANGED SceneData)]_vars

\* a move was cancelled on a keyed list of several expressions
C5_Witness ==
    /\ op.idname = "move_expression_item"
    /\ op.result = "CANCELLED"
    /\ Len(faceit_expression_list) >= 2
    /\ actions[OW].exists
    /\ AllFrames(actions[OW]) # {}


\* C6: with more than one expression in the list, a remove that finishes takes
\* out exactly the item named by remove_item (the selected item when
\* remove_item is empty), keeps the order of the others, lowers by 10 the frame
\* of exactly the items behind it and leaves the items before it as they were
C6_RemoveOne ==
    [][(Finishes("remove_expression_item") /\ Len(faceit_expression_list) > 1) =>
        LET list == faceit_expression_list
            k == IF op'.name # NoName THEN ListFind(list, op'.name) + 1
                 ELSE faceit_expression_list_index + 1
        IN  /\ k \in DOMAIN list
            /\ Len(faceit_expression_list') = Len(list) - 1
            /\ \A i \in 1..(k - 1) : faceit_expression_list'[i] = list[i]
            /\ \A i \in k..(Len(list) - 1) :
                  faceit_expression_list'[i]
                     = [list[i + 1] EXCEPT !.frame = list[i + 1].frame - SlotLen]]_vars

\* an item that was not the selected one has just been removed by name from
\* a list of three, and the selected item is still there
C6_Witness ==
    /\ Finished("remove_expression_item")
    /\ op.name # NoName
    /\ op.name \notin ListNames(faceit_expression_list)
    /\ Len(faceit_expression_list) = 2
    /\ faceit_expression_list_index = 1
    /\ actions[OW].exists

\* C7: remove_expression_item on a list of exactly one expression ends with
\* the list empty, the index -1, neither action existing and the scene range
\* 1 .. 250
C7_RemoveLastClears ==
    [][(op'.idname = "remove_expression_item" /\ Len(faceit_expression_list) = 1) =>
        /\ op'.result = "FINISHED"
        /\ faceit_expression_list' = <<>>
        /\ faceit_expression_list_index' = -1
        /\ ~actions'[SHAPE].exists
        /\ ~actions'[OW].exists
        /\ frame_start' = 1
        /\ frame_end' = 250]_vars

\* the only expression has just been removed, after the scene range had been
\* set from an action
C7_Witness ==
    /\ Finished("remove_expression_item")
    /\ faceit_expression_list = <<>>
    /\ cc_action.exists
    /\ nops >= 3

\* C8: clear_faceit_expressions leaves, from any state, the list empty, the
\* index -1, neither action existing and the rig without active action
C8_ClearClears ==
    [][op'.idname = "clear_faceit_expressions" =>
        /\ op'.result = "FINISHED"
        /\ faceit_expression_list' = <<>>
        /\ faceit_expression_list_index' = -1
        /\ ~actions'[SHAPE].exists
        /\ ~actions'[OW].exists
        /\ rig_action' = "None"]_vars

\* expressions with a corrective shape key have just been cleared
C8_Witness ==
    /\ Finished("clear_faceit_expressions")
    /\ cc_action.exists
    /\ shape_keys # {}

\* C9: after a load with load_method OVERWRITE the list holds exactly the
\* expressions of the file, in file order, at frames 10, 20, .., each with the
\* side (default 'N'), mirror_name (default '') and procedural value (default
\* 'NONE') of the file; nothing of the previous list remains
C9_OverwriteLoadsFile ==
    [][(Finishes("append_action_to_faceit_rig") /\ op'.method = "OVERWRITE") =>
        LET entries == Files[op'.file].expressions
        IN  /\ Len(faceit_expression_list') = Len(entries)
            /\ \A k \in DOMAIN entries :
                LET e == entries[k]
                    item == faceit_expression_list'[k]
                IN  /\ item.name = e.name
                    /\ item.frame = SlotLen * k
                    /\ item.side = (IF "side" \in e.keys THEN e.side ELSE "N")
                    /\ item.mirror_name
                         = (IF "mirror_name" \in e.keys THEN e.mirror_name ELSE NoName)
                    /\ item.procedural
                         = (IF "procedural" \in e.keys THEN e.procedural ELSE "NONE")]_vars

\* a file has just been loaded over a list that held other expressions
C9_Witness ==
    /\ Finished("append_action_to_faceit_rig")
    /\ op.method = "OVERWRITE"
    /\ shape_keys # {}
    /\ shape_keys \cap ListNames(faceit_expression_list) = {}
    /\ \E i \in DOMAIN faceit_expression_list :
          faceit_expression_list[i].mirror_name # NoName

\* C10: after a load with load_method APPEND onto n >= 1 expressions with both
\* actions present, the first n items are the previous ones in order and
\* frame, the m loaded ones follow at frames 10 * (n + 1) .. 10 * (n + m), and
\* the pose keyframes of the k-th expression of the file lie at the frame of
\* its list item in both actions
C10_AppendPlacesPoses ==
    [][(/\ Finishes("append_action_to_faceit_rig")
        /\ op'.method = "APPEND"
        /\ Len(faceit_expression_list) >= 1
        /\ actions[SHAPE].exists
        /\ actions[OW].exists) =>
        LET file == Files[op'.file]
            n == Len(faceit_expression_list)
            m == Len(file.expressions)
        IN  /\ Len(faceit_expression_list') = n + m
            /\ \A i \in 1..n :
                /\ faceit_expression_list'[i].name = faceit_expression_list[i].name
                /\ faceit_expression_list'[i].frame = faceit_expression_list[i].frame
            /\ \A k \in 1..m :
                /\ faceit_expression_list'[n + k].frame = SlotLen * (n + k)
                /\ \A dp \in DOMAIN file.action, a \in {SHAPE, OW} :
                    \A key \in Range(KeysAt(file.action[dp], SlotLen * k)) :
                        key.v \in Range(CurveValuesAt(actions'[a], dp,
                                            faceit_expression_list'[n + k].frame))]_vars

\* how often a point occurs on a curve
CountKey(fc, k) == Cardinality({i \in DOMAIN fc : fc[i] = k})

\* every point of every curve of action a is still there after the step
KeepsKeys(a) ==
    \A dp \in DOMAIN actions[a].fcurves :
        /\ dp \in DOMAIN actions'[a].fcurves
        /\ \A k \in Range(actions[a].fcurves[dp]) :
              CountKey(actions'[a].fcurves[dp], k) >= CountKey(actions[a].fcurves[dp], k)

\* C11: a load requested with load_method APPEND while the list is empty or
\* one of faceit_shape_action, overwrite_shape_action is missing ends as the
\* same load requested with OVERWRITE ends: the list holds the file's
\* expressions only and the two actions hold nothing of their former content;
\* in every other case the former items, both actions and their curves stay,
\* and so does every former keyframe when the load generates no mouth-close
\* pose (which is keyed afresh at the slot of the item named 'mouthClose')
C11_AppendFallsBack ==
    [][(op'.idname = "append_action_to_faceit_rig" /\ op'.method = "APPEND") =>
        LET file == Files[op'.file]
            n == Len(faceit_expression_list)
            m == Len(file.expressions)
        IN  IF \/ faceit_expression_list = <<>>
               \/ ~actions[SHAPE].exists
               \/ ~actions[OW].exists
            THEN /\ Len(faceit_expression_list') = m
                 /\ \A k \in 1..m :
                      /\ faceit_expression_list'[k].name = file.expressions[k].name
                      /\ faceit_expression_list'[k].frame = SlotLen * k
                 /\ actions' = append_action_to_faceit_rig(
                                   State, file, "OVERWRITE", op'.flag).actions
            ELSE /\ Len(faceit_expression_list') = n + m
                 /\ \A i \in 1..n :
                      /\ faceit_expression_list'[i].name = faceit_expression_list[i].name
                      /\ faceit_expression_list'[i].frame = faceit_expression_list[i].frame
                 /\ \A a \in {SHAPE, OW} :
                      /\ actions'[a].exists
                      /\ DOMAIN actions[a].fcurves \subseteq DOMAIN actions'[a].fcurves
                      /\ file.preset # "ARKIT" => KeepsKeys(a)]_vars

\* an APPEND load has just replaced a list whose expression had a corrective
\* shape key
C11_Witness ==
    /\ Finished("append_action_to_faceit_rig")
    /\ op.method = "APPEND"
    /\ Len(faceit_expression_list) = Len(Files[op.file].expressions)
    /\ shape_keys # {}
    /\ shape_keys \cap ListNames(faceit_expression_list) = {}

\* ------------------------------------------------ rest keys and constraints
\* the user keys the influence of a bone constraint of the rig, at the frame
\* of an expression or the frame behind it
KeyConstraintInfluence ==
    /\ nops < MaxOps
    /\ rig_action # "None"
    /\ \E i \in DOMAIN faceit_expression_list, d \in {0, 1} :
        Commit([State EXCEPT
                   !.actions[rig_action] =
                       rig_keyframe_insert(@, "infl", faceit_expression_list[i].frame + d, 1),
                   !.result = "FINISHED"],
               Op("keyframe_insert", "FINISHED", "", NoName, "", 0, FALSE))

NextZero ==
    \/ AddExpressionItem
    \/ RemoveExpressionItem
    \/ AppendActionToFaceitRig
    \/ KeyConstraintInfluence
    \/ ForceZeroFrames

SpecZero == Init /\ [][NextZero]_vars

C14_ForceZeroKeysConstraints ==
    [][Finishes("force_zero_frames") =>
        \A dp \in DOMAIN actions'[rig_action].fcurves :
           IsInfluencePath(dp) =>
              \A z \in ZeroFrames(faceit_expression_list) :
                 CurveValuesAt(actions'[rig_action], dp, z) # <<>>]_vars

\* ----------------------------------------------------- mirror expressions
MirrorOverwriteAnimation ==
    /\ nops < MaxOps
    /\ \E expression_to_mirror \in {nACTIVE, nALL} \cup ListNames(faceit_expression_list),
          mirror_corrective_sk \in BOOLEAN :
        LET S == mirror_overwrite(State, expression_to_mirror, mirror_corrective_sk)
        IN  Commit(S, Op("mirror_overwrite", S.result, "", expression_to_mirror, "", 0,
                         mirror_corrective_sk))

NextMirror ==
    \/ AddExpressionItem
    \/ SelectExpression
    \/ AddCorrectiveShapeKey
    \/ RemoveExpressionItem
    \/ MirrorOverwriteAnimation

SpecMirror == Init /\ [][NextMirror]_vars

\* C15: mirror_overwrite called with expression_to_mirror 'ACTIVE' on a
\* selected expression whose mirror expression is in the list finishes, leaves
\* at the frame of the mirror expression the pose keyed at the frame of the
\* selected one, and selects the mirror expression
C15_MirrorActive ==
    [][(/\ op'.idname = "mirror_overwrite"
        /\ op'.name = nACTIVE
        /\ remove_poll(State)
        /\ ListFind(faceit_expression_list,
                    faceit_expression_list[faceit_expression_list_index + 1].mirror_name)
              # -1) =>
        LET exp == faceit_expression_list[faceit_expression_list_index + 1]
            idx == ListFind(faceit_expression_list, exp.mirror_name)
        IN  /\ op'.result = "FINISHED"
            /\ faceit_expression_list_index' = idx
            /\ rig_action # "None" =>
                  \A dp \in DOMAIN actions[rig_action].fcurves :
                     CurveValuesAt(actions[rig_action], dp, exp.frame) # <<>> =>
                        CurveValuesAt(actions'[rig_action], dp,
                                      faceit_expression_list[idx + 1].frame)
                           = CurveValuesAt(actions[rig_action], dp, exp.frame)]_vars

\* ------------------------------------------- actions for motion capture
\* bpy.data.actions by name: the two expression actions and the others
bpy_data_actions ==
    mocap_actions \cup {a \in {OW, SHAPE} : actions[a].exists}

NameSuffixes == [n \in 1..9 |-> ".00" \o ToString(n)]

\* bpy.data.actions.new(name): the name is made unique with a numeric suffix
UniqueActionName(name, existing) ==
    IF name \notin existing THEN name
    ELSE name \o NameSuffixes[SetMin({n \in 1..9 : (name \o NameSuffixes[n]) \notin existing})]

\* the keyframes of an action of bpy.data.actions; the actions made by
\* new_action are never keyed here
ActionData(name) == IF name \in {OW, SHAPE} THEN actions[name] ELSE NewAction

\* FACEIT_OT_PopulateAction.execute on the scene M with the actions of data
populate_action(M, data, action_name) ==
    LET new_action == IF action_name # "" THEN
                          (IF action_name \in data THEN action_name ELSE "None")
                      ELSE M.mocap_action
        frame_range == get_action_frame_range(ActionData(new_action))
    IN  IF new_action = "None" THEN [M EXCEPT !.result = "CANCELLED"]
        ELSE [M EXCEPT
                !.sk_action = IF M.blendshapes_target THEN new_action ELSE @,
                !.mocap_action = new_action,
                !.frame_start = IF frame_range[2] - frame_range[1] > 1
                                THEN frame_range[1] ELSE @,
                !.frame_current = IF frame_range[2] - frame_range[1] > 1
                                  THEN frame_range[1] ELSE @,
                !.frame_end = IF frame_range[2] - frame_range[1] > 1
                              THEN frame_range[2] ELSE @,
                !.result = "FINISHED"]

\* FACEIT_OT_NewAction.execute: the action is created and populated; the
\* options populate_animation_data, head_action and eye_action are not read
new_action(M, data, action_name, populate_animation_data) ==
    LET name == UniqueActionName(action_name, data)
    IN  [populate_action([M EXCEPT !.mocap_actions = @ \cup {name}],
                         data \cup {name}, name)
           EXCEPT !.result = "FINISHED"]

\* the part of the scene the two operators work on
MocapScene ==
    [mocap_actions |-> mocap_actions, sk_action |-> sk_action,
     mocap_action |-> mocap_action, blendshapes_target |-> blendshapes_target,
     frame_start |-> frame_start, frame_end |-> frame_end,
     frame_current |-> frame_current, result |-> "FINISHED"]

CommitMocap(M, o) ==
    /\ mocap_actions' = M.mocap_actions
    /\ sk_action' = M.sk_action
    /\ mocap_action' = M.mocap_action
    /\ frame_start' = M.frame_start
    /\ frame_end' = M.frame_end
    /\ frame_current' = M.frame_current
    /\ OptionsUnchanged
    /\ UNCHANGED <<faceit_expression_list, faceit_expression_list_index, actions,
                   cc_action, rig_action, shape_keys, exported, exported_list,
                   use_mirror_x, sk_source>>
    /\ op' = [o EXCEPT !.result = M.result]
    /\ nops' = nops + 1

ActionNames == {"FaceCapAction", "Take"}

FaceitNewAction ==
    /\ nops < MaxOps
    /\ \E action_name \in ActionNames, populate_animation_data \in BOOLEAN :
        CommitMocap(new_action(MocapScene, bpy_data_actions, action_name,
                               populate_animation_data),
                    Op("new_action", "FINISHED", "", NoName, action_name, 0,
                       populate_animation_data))

PopulateAction ==
    /\ nops < MaxOps
    /\ \E action_name \in ActionNames \cup {"", SHAPE, "FaceCapAction.001"} :
        CommitMocap(populate_action(MocapScene, bpy_data_actions, action_name),
                    Op("populate_action", "FINISHED", "", NoName, action_name, 0,
                       FALSE))

InitMocap ==
    /\ InitScene
    /\ rig_hidden = FALSE
    /\ shapes_generated = FALSE
    /\ auto_mirror_x = TRUE
    /\ blendshapes_target \in BOOLEAN

NextMocap ==
    \/ AddExpressionItem
    \/ FaceitNewAction
    \/ PopulateAction

SpecMocap == InitMocap /\ [][NextMocap]_vars

\* C16: new_action creates the action and activates it only when asked to:
\* with populate_animation_data the new action becomes the action of the
\* registered objects' shape keys and scene.faceit_mocap_action, and without
\* it both are left as they were.
C16_NewActionOptional ==
    [][op'.idname = "new_action" =>
         /\ \E name \in mocap_actions' \ mocap_actions :
              /\ mocap_actions' = mocap_actions \cup {name}
              /\ op'.flag =>
                   /\ mocap_action' = name
                   /\ blendshapes_target => sk_action' = name
         /\ ~op'.flag => /\ sk_action' = sk_action
                         /\ mocap_action' = mocap_action]_vars

\* the values keyed on a curve at frame f are all keyed at frame g afterwards
CarriedTo(a, dp, f, g) ==
    Range(CurveValuesAt(actions[a], dp, f)) \subseteq Range(CurveValuesAt(actions'[a], dp, g))

\* C17: a move that does not cancel carries every keyframe of the moved
\* expression to the same offset from its new frame, in overwrite_shape_action
\* and in faceit_shape_action: the pose keys at its frame f and, for a
\* procedural mouth-close expression, the mouth_lock keys at f-10, f-9, f, f+1
C17_MoveCarriesKeys ==
    [][Finishes("move_expression_item") =>
        LET e == faceit_expression_list[faceit_expression_list_index + 1]
            g == ItemNamed(faceit_expression_list', e.name).frame
        IN  \A a \in {OW, SHAPE} :
              /\ \A dp \in DOMAIN actions[a].fcurves :
                    CarriedTo(a, dp, e.frame, g)
              /\ e.procedural = "MOUTHCLOSE" =>
                    \A d \in {-10, -9, 0, 1} :
                        CarriedTo(a, "lock", e.frame + d, g + d)]_vars

\* no curve of the action holds two keyframe points at one frame
NoDoubleKeys(action) ==
    \A dp \in DOMAIN action.fcurves :
        \A f \in FramesOf(action.fcurves[dp]) : Len(KeysAt(action.fcurves[dp], f)) = 1

\* C18: when no curve holds two keyframes at the same frame before
\* remove_expression_item, none does afterwards in overwrite_shape_action,
\* faceit_shape_action or the corrective shape-key action; the rest key at
\* f+1 of the removed slot does not land on the rest key at f-9
C18_RemoveKeepsCurvesConsistent ==
    [][(/\ Finishes("remove_expression_item")
        /\ NoDoubleKeys(actions[OW])
        /\ NoDoubleKeys(actions[SHAPE])
        /\ NoDoubleKeys(cc_action))
        => (/\ NoDoubleKeys(actions'[OW])
            /\ NoDoubleKeys(actions'[SHAPE])
            /\ NoDoubleKeys(cc_action'))]_vars

\* the number of keyframe points of value v a curve holds at frame f
CountValueAt(action, dp, f, v) ==
    Len(SelectSeq(CurveValuesAt(action, dp, f), LAMBDA x : x = v))

\* C19: after remove_expression_item removed expression E of frame f, no
\* keyframe written for E alone remains: its corrective curve 'faceit_cc_<E>'
\* holds no key, and for a procedural mouth-close expression the key
\* mouth_lock = 1 at f-9 is gone from both actions
C19_RemoveLeavesNoKeys ==
    [][(Finishes("remove_expression_item") /\ faceit_expression_list # <<>>) =>
        LET E == IF Len(faceit_expression_list) = 1 THEN faceit_expression_list[1]
                 ELSE RemoveTarget(faceit_expression_list,
                                   faceit_expression_list_index, op'.name)
        IN  /\ CurveFrames(cc_action', E.name) = {}
            /\ E.procedural = "MOUTHCLOSE" =>
                 \A a \in {OW, SHAPE} :
                    CountValueAt(actions'[a], "lock", E.frame - 9, 1)
                        <= CountValueAt(actions[a], "lock", E.frame + 1, 1)]_vars

\* ------------------------------------------ selection with the scene options
\* the rig may be hidden, the expression shapes generated and the automatic
\* mirror option off
InitSelect ==
    /\ InitScene
    /\ rig_hidden \in BOOLEAN
    /\ shapes_generated \in BOOLEAN
    /\ auto_mirror_x \in BOOLEAN
    /\ blendshapes_target = TRUE

NextSelect ==
    \/ AddExpressionItem
    \/ MoveExpressionItem
    \/ RemoveExpressionItem
    \/ SelectExpression

SpecSelect == InitSelect /\ [][NextSelect]_vars

\* C20: an assignment of faceit_expression_list_index on a non-empty list
\* with the rig visible and the shapes not generated sets scene.frame_current
\* to the frame of the item at the index and, with faceit_use_auto_mirror_x,
\* the rig's pose.use_mirror_x to whether the item's mirror_name is empty;
\* with the rig hidden or the shapes generated frame_current stays
C20_SelectMovesTimeline ==
    [][op'.idname = "select" =>
        LET item == faceit_expression_list[faceit_expression_list_index' + 1]
        IN  /\ faceit_expression_list' = faceit_expression_list
            /\ (~rig_hidden /\ ~shapes_generated) =>
                   /\ frame_current' = item.frame
                   /\ auto_mirror_x => use_mirror_x' = (item.mirror_name = NoName)
            /\ (rig_hidden \/ shapes_generated) => frame_current' = frame_current]_vars

\* an item without mirror expression has just been selected in a list that
\* also holds a mirrored pair, with the rig visible, and the mirror option of
\* the rig is on; the timeline is at the item's frame
C20_Witness ==
    /\ op.idname = "select"
    /\ ~rig_hidden /\ ~shapes_generated /\ auto_mirror_x
    /\ \E e \in Range(faceit_expression_list) : e.mirror_name # NoName
    /\ faceit_expression_list[faceit_expression_list_index + 1].mirror_name = NoName
    /\ frame_current = faceit_expression_list[faceit_expression_list_index + 1].frame
    /\ frame_current > SlotLen
    /\ use_mirror_x

IsAddCall(c) ==
    /\ op'.idname = "add_expression_item"
    /\ op'.name = c.expression_name
    /\ op'.flag = c.custom_shape

\* C21: a custom-shape add_expression_item with side L or R and auto_mirror,
\* for a name that carries the side, appends exactly two items: the
\* expression and directly after it a mirror expression of the opposite side
\* with a non-empty name different from the first; their mirror_name fields
\* name each other and the selection is left on the first of the two
C21_AutoMirrorAddsPair ==
    [][\A c \in AddCalls :
        (/\ IsAddCall(c)
         /\ c.custom_shape /\ c.auto_mirror /\ c.side \in {"L", "R"}
         /\ poll_side_in_expression_name(c.side, c.expression_name)) =>
        LET n == Len(faceit_expression_list)
            new == faceit_expression_list'
        IN  /\ Len(new) = n + 2
            /\ SubSeq(new, 1, n) = faceit_expression_list
            /\ new[n + 1].side = c.side
            /\ new[n + 2].side = (IF c.side = "L" THEN "R" ELSE "L")
            /\ new[n + 2].name # NoName
            /\ new[n + 2].name # new[n + 1].name
            /\ new[n + 1].mirror_name = new[n + 2].name
            /\ new[n + 2].mirror_name = new[n + 1].name
            /\ faceit_expression_list_index' = n]_vars

\* ------------------------------------------------- the side of a name
MaxParts == 3

\* the pieces the expression names are made of
NameParts ==
    {sLeft, <<"L","e","f","t">>, <<"R","i","g","h","t">>, <<"_","l">>, <<"_","R">>,
     <<"L">>, <<"R">>, <<"a">>}

\* the names of at most n pieces
RECURSIVE NamesOf(_)
NamesOf(n) ==
    IF n = 0 THEN {NoName}
    ELSE LET shorter == NamesOf(n - 1)
         IN  shorter \cup {x \o y : x \in shorter, y \in NameParts}

\* get_side and poll_side_in_expression_name applied to one name: op.result
\* is the side found, op.flag the answer of the poll for op.direction.  The
\* two functions read nothing but their arguments, so each behaviour applies
\* them once
SideOfName ==
    /\ op.idname = "init"
    /\ \E expression_name \in NamesOf(MaxParts), side \in {"L", "N", "R"} :
         /\ op' = Op("poll_side_in_expression_name", get_side(expression_name), side,
                     expression_name, "", 0,
                     poll_side_in_expression_name(side, expression_name))
         /\ OptionsUnchanged
         /\ MocapUnchanged
         /\ UNCHANGED <<faceit_expression_list, faceit_expression_list_index, actions,
                        cc_action, rig_action, shape_keys, frame_start, frame_end,
                        frame_current, exported, exported_list, use_mirror_x, sk_source,
                        nops>>

NextSide == SideOfName

SpecSide == Init /\ [][NextSide]_vars

\* the name carries a mark of the left side / of the right side
HasLeftMark(name) == poll_side_in_expression_name("L", name)

HasRightMark(name) == poll_side_in_expression_name("R", name)

\* C22: for every name and every side s of L and R the poll for s is true
\* exactly when get_side of the name is s, for N it is false, and get_side
\* returns one of L, N, R
C22_SideConsistentExact ==
    op.idname = "poll_side_in_expression_name" =>
        /\ op.result \in {"L", "N", "R"}
        /\ op.direction \in {"L", "R"} => (op.flag <=> op.result = op.direction)
        /\ op.direction = "N" => ~op.flag

\* C22 as the code has it: the poll for L is true exactly when get_side is L;
\* the poll for R is true exactly when get_side is R or the name carries the
\* marks of both sides, which get_side reports as L; for N the poll is
\* false, and get_side returns one of L, N, R
C22_SideConsistent ==
    op.idname = "poll_side_in_expression_name" =>
        /\ op.result \in {"L", "N", "R"}
        /\ op.direction = "L" => (op.flag <=> op.result = "L")
        /\ op.direction = "R" =>
              (op.flag <=> (\/ op.result = "R"
                            \/ op.result = "L" /\ HasRightMark(op.name)))
        /\ op.direction = "R" /\ op.result = "R" => ~HasLeftMark(op.name)
        /\ op.direction = "N" => ~op.flag

\* the poll for the right side has been made on a name that carries the
\* marks of both sides: it is true and get_side says L
C22_Witness ==
    /\ op.idname = "poll_side_in_expression_name"
    /\ op.direction = "R"
    /\ op.flag
    /\ op.result = "L"
    /\ StrContains(StrLower(op.name), sLeft)
    /\ StrEndsWith(op.name, <<"R">>)

\* C23: when mirror_overwrite mirrors the corrective shape keys of all
\* expressions in one run, the shape key made for the mirror of an expression
\* E is built from the shape key 'faceit_cc_<E>' of E and from no other, and
\* an expression without a corrective shape key gives its mirror none
C23_MirrorUsesOwnShapeKey ==
    [][(/\ op'.idname = "mirror_overwrite"
        /\ op'.result = "FINISHED"
        /\ op'.name = nALL
        /\ op'.flag) =>
        \A i \in DOMAIN faceit_expression_list :
            LET E == faceit_expression_list[i]
                M == E.mirror_name
            IN  (M # NoName /\ M # E.name /\ M \in ListNames(faceit_expression_list)) =>
                    IF E.name \in shape_keys /\ cc_action.exists
                    THEN M \in shape_keys' /\ sk_source'[M] = {E.name}
                    ELSE M \in shape_keys' =>
                            (M \in shape_keys /\ sk_source'[M] = sk_source[M])]_vars

====
